---- MODULE Spec2Model ----
(***************************************************************************)
(* Model of one polling session of startReportPolling                      *)
(* (eduinsight-web/src/utils/pollingService.ts).                           *)
(*                                                                         *)
(* Time is counted in units of 1000 ms.  JavaScript runs every task to     *)
(* completion, so each action is one task: the synchronous call of         *)
(* startReportPolling, one interval tick (the synchronous part of poll up  *)
(* to its await), the continuation of poll after one awaited request       *)
(* settles, and one call of the returned stop function.                    *)
(* The interval timer is taken as exact: tick k is due k intervals after   *)
(* the call, and the clock does not pass a due tick; tasks due at the same *)
(* instant run in any order.                                               *)
(*                                                                         *)
(* Spec is the session alone.  ScenarioSpec feeds it a resource that       *)
(* completes on the fourth fetch, PairSpec runs it twice on reports that   *)
(* differ in ai_analysis_status, AiSpec is the AI-status polling, and      *)
(* ViewSpec adds the components that start a session and receive its       *)
(* callbacks (AnalysisCenterView.vue, AiAnalysisReport.vue).               *)
(* RaiseSpec records which callback raised, TwoSpec runs two sessions     *)
(* side by side.  The remaining specifications are the consumers' own     *)
(* asynchronous code, without the session: StoreSpec (analysisReportStore  *)
(* and ReportView), LifeSpec (AiAnalysisReport with all its sessions),     *)
(* RetrySpec (handleRetry), GridSpec (score grid) and ClassSpec (student   *)
(* grid and class store).                                                  *)
(***************************************************************************)
EXTENDS Integers, Sequences, FiniteSets, TLC

\* ------------------------------------------------------------------ bounds
\* largest timeout option a caller passes (units of 1000 ms)
MaxTimeoutOpt == 6
\* how many times the caller invokes the returned stop function
MaxStops == 2

\* -------------------------------------------------------- program constants
\* interval = 3000 ms
DefaultInterval == 3
\* axios timeout: 10000 ms, a request settles within this delay
RequestTimeout == 10

TimeoutOpts == (MaxTimeoutOpt - 1) .. MaxTimeoutOpt

ReportStatus == {"submitted", "processing", "completed", "failed"}

VARIABLES
    phase,          \* "idle" before startReportPolling is called, then "running"
    timeout,        \* options.timeout
    hasOnUpdate,    \* whether options.onUpdate was supplied
    now,            \* Date.now()
    startTime,      \* const startTime
    pollingHandle,  \* "undefined", "active" (interval armed), "cleared"
    nextTick,       \* time of the next interval tick while the interval is armed
    started,        \* started[i]: time at which request i was issued
    inflight,       \* requests awaited and not yet settled
    observed,       \* what the settled requests returned, in order of settling
    log,            \* callback invocations, in order
    stops,          \* number of calls of the returned stop function
    twin,           \* a second run of the session, fed the same statuses (PairSpec)
    view            \* the component that consumes the session (ViewSpec)

vars == <<phase, timeout, hasOnUpdate, now, startTime, pollingHandle, nextTick,
          started, inflight, observed, log, stops, twin, view>>

interval == DefaultInterval
\* no session outlives its timeout, one more interval and one last request
MaxTime == timeout + DefaultInterval + RequestTimeout + 1

\* ------------------------------------------------------------------ values
Report(s, f) == [kind |-> "report", val |-> s, from |-> f]
Error(what, f) == [kind |-> "error", val |-> what, from |-> f]
Call(cb, arg) == [cb |-> cb, arg |-> arg]

\* if (Date.now() - startTime > timeout)
TimedOutStrictless(t, t0) == t - t0 >= timeout
TimedOut(t, t0) == t - t0 > timeout

\* ------------------------------------------------------------------- state
\* no second run, no consuming component
NoTwin == [log |-> <<>>, pollingHandle |-> "undefined"]
NoView == [consumer |-> "none"]
\* the session alone: what startReportPolling and poll() never touch
Alone == UNCHANGED <<twin, view>>

Init ==
    /\ phase = "idle"
    /\ timeout \in TimeoutOpts
    /\ hasOnUpdate \in BOOLEAN
    /\ now = 0
    /\ startTime = 0
    /\ pollingHandle = "undefined"
    /\ nextTick = 0
    /\ started = <<>>
    /\ inflight = {}
    /\ observed = <<>>
    /\ log = <<>>
    /\ stops = 0
    /\ twin = NoTwin
    /\ view = NoView

\* The synchronous part of poll() run at time now, of a session started at t0:
\* the timeout branch (clearInterval is applied by the caller of this
\* operator, which knows whether the interval exists yet), or else the
\* request is issued and poll suspends at its await.  An exception raised
\* by onFailure here leaves poll() rejected and changes nothing else.
PollSync(t0) ==
    IF TimedOut(now, t0)
    THEN /\ log' = Append(log, Call("onFailure", Error("timeout", 0)))
         /\ UNCHANGED <<started, inflight>>
    ELSE /\ started' = Append(started, now)
         /\ inflight' = inflight \cup {Len(started) + 1}
         /\ UNCHANGED log

\* startReportPolling(options): poll(); pollingHandle = setInterval(poll, interval)
\* (clearInterval(undefined) inside the first poll() does nothing)
StartReportPolling ==
    /\ phase = "idle"
    /\ phase' = "running"
    /\ startTime' = now
    /\ PollSync(now)
    /\ pollingHandle' = "active"
    /\ nextTick' = now + interval
    /\ UNCHANGED <<timeout, hasOnUpdate, now, observed, stops>>

\* the timeout branch of poll() without its clearInterval
TickNoClear ==
    /\ phase = "running"
    /\ pollingHandle = "active"
    /\ now = nextTick
    /\ nextTick' = nextTick + interval
    /\ PollSync(startTime)
    /\ UNCHANGED <<phase, timeout, hasOnUpdate, now, startTime, pollingHandle,
                   observed, stops>>

\* one interval tick: setInterval calls poll()
Tick ==
    /\ phase = "running"
    /\ pollingHandle = "active"
    /\ now = nextTick
    /\ nextTick' = nextTick + interval
    /\ PollSync(startTime)
    /\ pollingHandle' = (IF TimedOut(now, startTime) THEN "cleared" ELSE pollingHandle)
    /\ UNCHANGED <<phase, timeout, hasOnUpdate, now, startTime, observed, stops>>

\* poll() calling onUpdate only for a non-terminal status
ContinuationUpdateNonTerminal(rep, ru, rt) ==
    LET upd == IF hasOnUpdate THEN <<Call("onUpdate", rep)>> ELSE <<>>
        caught == <<Call("onFailure", Error("exception", rep.from))>>
    IN  IF rep.val = "completed"
        THEN [calls |-> <<Call("onSuccess", rep)>> \o (IF rt THEN caught ELSE <<>>),
              clear |-> TRUE]
        ELSE IF rep.val = "failed"
        THEN [calls |-> <<Call("onFailure", rep)>> \o (IF rt THEN caught ELSE <<>>),
              clear |-> TRUE]
        ELSE IF hasOnUpdate /\ ru
        THEN [calls |-> upd \o caught, clear |-> TRUE]
        ELSE [calls |-> upd, clear |-> FALSE]

\* poll() without its branch for status failed
ContinuationNoFailedBranch(rep, ru, rt) ==
    LET upd == IF hasOnUpdate THEN <<Call("onUpdate", rep)>> ELSE <<>>
        caught == <<Call("onFailure", Error("exception", rep.from))>>
    IN  IF hasOnUpdate /\ ru
        THEN [calls |-> upd \o caught, clear |-> TRUE]
        ELSE IF rep.val = "completed"
        THEN [calls |-> upd \o <<Call("onSuccess", rep)>>
                            \o (IF rt THEN caught ELSE <<>>),
              clear |-> TRUE]
        ELSE [calls |-> upd, clear |-> FALSE]

\* poll() passing a new Error, not the report, to onFailure for status failed
ContinuationFailedAsError(rep, ru, rt) ==
    LET upd == IF hasOnUpdate THEN <<Call("onUpdate", rep)>> ELSE <<>>
        caught == <<Call("onFailure", Error("exception", rep.from))>>
    IN  IF hasOnUpdate /\ ru
        THEN [calls |-> upd \o caught, clear |-> TRUE]
        ELSE IF rep.val = "completed"
        THEN [calls |-> upd \o <<Call("onSuccess", rep)>>
                            \o (IF rt THEN caught ELSE <<>>),
              clear |-> TRUE]
        ELSE IF rep.val = "failed"
        THEN [calls |-> upd \o <<Call("onFailure", Error("failed", rep.from))>>
                            \o (IF rt THEN caught ELSE <<>>),
              clear |-> TRUE]
        ELSE [calls |-> upd, clear |-> FALSE]

\* poll() treating completed as terminal only once the AI task has settled too
ContinuationAwaitsAi(rep, ru, rt) ==
    LET upd == IF hasOnUpdate THEN <<Call("onUpdate", rep)>> ELSE <<>>
        caught == <<Call("onFailure", Error("exception", rep.from))>>
    IN  IF hasOnUpdate /\ ru
        THEN [calls |-> upd \o caught, clear |-> TRUE]
        ELSE IF rep.val = "completed" /\ rep.ai # "processing"
        THEN [calls |-> upd \o <<Call("onSuccess", rep)>>
                            \o (IF rt THEN caught ELSE <<>>),
              clear |-> TRUE]
        ELSE IF rep.val = "failed"
        THEN [calls |-> upd \o <<Call("onFailure", rep)>>
                            \o (IF rt THEN caught ELSE <<>>),
              clear |-> TRUE]
        ELSE [calls |-> upd, clear |-> FALSE]

\* poll() with its two status branches exchanged
ContinuationSwapped(rep, ru, rt) ==
    LET upd == IF hasOnUpdate THEN <<Call("onUpdate", rep)>> ELSE <<>>
        caught == <<Call("onFailure", Error("exception", rep.from))>>
    IN  IF hasOnUpdate /\ ru
        THEN [calls |-> upd \o caught, clear |-> TRUE]
        ELSE IF rep.val = "failed"
        THEN [calls |-> upd \o <<Call("onSuccess", rep)>>
                            \o (IF rt THEN caught ELSE <<>>),
              clear |-> TRUE]
        ELSE IF rep.val = "completed"
        THEN [calls |-> upd \o <<Call("onFailure", rep)>>
                            \o (IF rt THEN caught ELSE <<>>),
              clear |-> TRUE]
        ELSE [calls |-> upd, clear |-> FALSE]

\* poll() without its try/catch: an exception of a callback leaves poll()
ContinuationNoCatch(rep, ru, rt) ==
    LET upd == IF hasOnUpdate THEN <<Call("onUpdate", rep)>> ELSE <<>>
    IN  IF hasOnUpdate /\ ru
        THEN [calls |-> upd, clear |-> FALSE]
        ELSE IF rep.val = "completed"
        THEN [calls |-> upd \o <<Call("onSuccess", rep)>>, clear |-> TRUE]
        ELSE IF rep.val = "failed"
        THEN [calls |-> upd \o <<Call("onFailure", rep)>>, clear |-> TRUE]
        ELSE [calls |-> upd, clear |-> FALSE]

\* The callbacks poll() runs after `await getReportDetails` returned report rep,
\* and whether it reaches a clearInterval.  ru, rt: whether onUpdate and the
\* terminal callback raise; an exception raised by the onFailure of the catch
\* block leaves poll() rejected and changes nothing else.
Continuation(rep, ru, rt) ==
    LET upd == IF hasOnUpdate THEN <<Call("onUpdate", rep)>> ELSE <<>>
        caught == <<Call("onFailure", Error("exception", rep.from))>>
    IN  IF hasOnUpdate /\ ru
        THEN [calls |-> upd \o caught, clear |-> TRUE]
        ELSE IF rep.val = "completed"
        THEN [calls |-> upd \o <<Call("onSuccess", rep)>>
                            \o (IF rt THEN caught ELSE <<>>),
              clear |-> TRUE]
        ELSE IF rep.val = "failed"
        THEN [calls |-> upd \o <<Call("onFailure", rep)>>
                            \o (IF rt THEN caught ELSE <<>>),
              clear |-> TRUE]
        ELSE [calls |-> upd, clear |-> FALSE]

\* the awaited request f resolves with a report of status s; poll() resumes
FetchResolve(f, s) ==
    /\ f \in inflight
    /\ inflight' = inflight \ {f}
    /\ observed' = Append(observed, Report(s, f))
    /\ \E ru, rt \in BOOLEAN :
         LET c == Continuation(Report(s, f), ru, rt)
         IN  /\ log' = log \o c.calls
             /\ pollingHandle' = (IF c.clear THEN "cleared" ELSE pollingHandle)
    /\ UNCHANGED <<phase, timeout, hasOnUpdate, now, startTime, nextTick,
                   started, stops>>

\* the catch block of poll() without its clearInterval
FetchRejectNoClear(f) ==
    /\ f \in inflight
    /\ inflight' = inflight \ {f}
    /\ observed' = Append(observed, Error("fetch", f))
    /\ log' = Append(log, Call("onFailure", Error("fetch", f)))
    /\ UNCHANGED <<phase, timeout, hasOnUpdate, now, startTime, pollingHandle,
                   nextTick, started, stops>>

\* the awaited request f rejects; the catch block of poll() runs
FetchReject(f) ==
    /\ f \in inflight
    /\ inflight' = inflight \ {f}
    /\ observed' = Append(observed, Error("fetch", f))
    /\ pollingHandle' = "cleared"
    /\ log' = Append(log, Call("onFailure", Error("fetch", f)))
    /\ UNCHANGED <<phase, timeout, hasOnUpdate, now, startTime, nextTick,
                   started, stops>>

\* a stop function whose test is inverted: if (!pollingHandle) clearInterval(...)
StopNoClear ==
    /\ phase = "running"
    /\ stops < MaxStops
    /\ stops' = stops + 1
    /\ pollingHandle' = (IF pollingHandle = "undefined" THEN "cleared" ELSE pollingHandle)
    /\ UNCHANGED <<phase, timeout, hasOnUpdate, now, startTime, nextTick,
                   started, inflight, observed, log>>

\* a stop function that also reports the cancellation through onFailure
StopNotifies ==
    /\ phase = "running"
    /\ stops < MaxStops
    /\ stops' = stops + 1
    /\ pollingHandle' = (IF pollingHandle # "undefined" THEN "cleared" ELSE pollingHandle)
    /\ log' = Append(log, Call("onFailure", Error("cancelled", 0)))
    /\ UNCHANGED <<phase, timeout, hasOnUpdate, now, startTime, nextTick,
                   started, inflight, observed>>

\* the function startReportPolling returned: if (pollingHandle) clearInterval(pollingHandle)
Stop ==
    /\ phase = "running"
    /\ stops < MaxStops
    /\ stops' = stops + 1
    /\ pollingHandle' = (IF pollingHandle # "undefined" THEN "cleared" ELSE pollingHandle)
    /\ UNCHANGED <<phase, timeout, hasOnUpdate, now, startTime, nextTick,
                   started, inflight, observed, log>>

\* Time passes.  A due tick fires before time moves on, a request settles
\* within RequestTimeout, and the clock is followed only while the session
\* can still act.
Advance ==
    /\ phase = "running"
    /\ now < MaxTime
    /\ pollingHandle = "active" \/ inflight # {}
    /\ pollingHandle = "active" => now < nextTick
    /\ \A f \in inflight : now < started[f] + RequestTimeout
    /\ now' = now + 1
    /\ UNCHANGED <<phase, timeout, hasOnUpdate, startTime, pollingHandle, nextTick,
                   started, inflight, observed, log, stops>>

Next ==
    \/ StartReportPolling /\ Alone
    \/ Tick /\ Alone
    \/ \E f \in inflight, s \in ReportStatus : FetchResolve(f, s) /\ Alone
    \/ \E f \in inflight : FetchReject(f) /\ Alone
    \/ Stop /\ Alone
    \/ Advance /\ Alone

Spec == Init /\ [][Next]_vars

\* ------------------------------------------------------- derived notions
Calls(cb) == {i \in DOMAIN log : log[i].cb = cb}
Terminals == Calls("onSuccess") \cup Calls("onFailure")
TimeoutCalls == {i \in Calls("onFailure") : log[i].arg = Error("timeout", 0)}
\* no callback has raised so far
NoRaise == \A i \in DOMAIN log : log[i].arg.val # "exception"
\* the interval is cleared and no request is awaited
Finished == phase = "running" /\ pollingHandle = "cleared" /\ inflight = {}
Settled(kind) == {k \in DOMAIN observed : observed[k].kind = kind}
Saw(status) == {k \in DOMAIN observed : observed[k] = Report(status, observed[k].from)}
Min(S) == CHOOSE x \in S : \A y \in S : x <= y

\* ------------------------------------------------------------------ claims

\* C1: a session invokes its terminal callbacks (onSuccess, onFailure) at most
\* once in all, and exactly once when it ends without having been cancelled.
\* Stated for sessions whose callbacks return normally, so that what decides
\* it is the interleaving of ticks, slow fetches and stop calls.
C1_ExactlyOneTerminal ==
    NoRaise =>
        /\ Cardinality(Terminals) <= 1
        /\ (Finished /\ stops = 0) => Cardinality(Terminals) = 1

\* C2: once the stop function has been called, no callback (onUpdate,
\* onSuccess, onFailure) is invoked any more.
C2_NoCallbackAfterStop == [][stops > 0 => log' = log]_vars

\* C3: at most one getReportDetails request of a session is in flight.
C3_AtMostOneInFlight == Cardinality(inflight) <= 1

\* C4: a fetch that returns completed (failed) clears the interval and invokes
\* onSuccess (onFailure) with that report; onSuccess is invoked only for the
\* first fetch that observes completed; no fetch starts after that point.
\* Stated for sessions whose callbacks return normally.
C4_TerminalFetchState ==
    NoRaise =>
        /\ (Saw("completed") \cup Saw("failed") # {}) => pollingHandle = "cleared"
        /\ \A k \in Saw("completed") :
               \E i \in Calls("onSuccess") : log[i].arg = observed[k]
        /\ \A k \in Saw("failed") :
               \E i \in Calls("onFailure") : log[i].arg = observed[k]
        /\ \A i \in Calls("onSuccess") :
               /\ Saw("completed") # {}
               /\ log[i].arg = observed[Min(Saw("completed"))]
C4_TerminalFetch ==
    [][ /\ C4_TerminalFetchState'
        /\ (Saw("completed") \cup Saw("failed") # {}) => started' = started ]_vars

\* C5: when a request rejects, the session clears its interval, invokes
\* onFailure with that error, and starts no further request.
C5_RejectStops ==
    [][ /\ (Settled("error")' # Settled("error")) =>
              /\ pollingHandle' = "cleared"
              /\ log' = Append(log, Call("onFailure", observed'[Len(observed')]))
        /\ (Settled("error") # {}) => started' = started ]_vars
\* a request rejected while another was still awaited, and time went past the
\* moment the next tick was due
C5_Witness == Settled("error") # {} /\ now > nextTick

\* C6: every poll step (the one of the call and each tick) compares the time
\* elapsed since the call with the timeout; strictly greater: the interval is
\* cleared, onFailure gets a timeout Error, and no request is issued in that
\* step or later; otherwise the step issues a request and invokes nothing.
C6_TimeoutCheck ==
    [][ /\ (nextTick' # nextTick) =>
              IF now - startTime' > timeout
              THEN /\ pollingHandle' = "cleared"
                   /\ log' = Append(log, Call("onFailure", Error("timeout", 0)))
                   /\ started' = started
              ELSE /\ started' = Append(started, now)
                   /\ log' = log
        /\ (TimeoutCalls # {}) => started' = started ]_vars
\* the session timed out, after a tick at elapsed = timeout that still fetched
C6_Witness ==
    /\ TimeoutCalls # {}
    /\ \E i \in DOMAIN started : started[i] = startTime + timeout

\* C7: if every fetch returns submitted or processing and the session is never
\* cancelled, onSuccess is never invoked, onFailure is invoked only with the
\* timeout Error and only once, and that has happened once the clock is past
\* timeout + interval after the call.
C7_TimeoutOnly ==
    (stops = 0 /\ Settled("error") = {}
        /\ Saw("completed") = {} /\ Saw("failed") = {}) =>
        /\ Calls("onSuccess") = {}
        /\ Calls("onFailure") = TimeoutCalls
        /\ Cardinality(TimeoutCalls) <= 1
        /\ (phase = "running" /\ now > startTime + timeout + interval) =>
               Cardinality(TimeoutCalls) = 1

\* C8: with ticks firing when due and every request settling, a session
\* reaches the state where its interval is cleared and no request is awaited,
\* and stays there.
C8_BoundedLifetime == <>[]Finished
\* a session that ended by itself, by timeout
C8_Witness == Finished /\ stops = 0 /\ TimeoutCalls # {}

\* C9: after the stop function has been called the session starts no request.
C9_NoFetchAfterStop == [][stops > 0 => started' = started]_vars
\* stopped before the first tick, and the clock is past that tick, with the
\* request of the call as the only one
C9_Witness == stops > 0 /\ Len(started) = 1 /\ now > startTime + interval

\* C10: a call of the stop function, first or repeated, before or after the
\* session ended, starts no request, invokes no callback, leaves the interval
\* cleared, and changes nothing of a session whose interval was cleared.
C10_StopIdempotent ==
    [][ (stops' # stops) =>
            /\ pollingHandle' = "cleared"
            /\ UNCHANGED <<log, started, inflight, observed, now, nextTick,
                           startTime, phase>>
            /\ (stops > 0 => pollingHandle = "cleared") ]_vars
\* the stop function called twice after the session had ended by timeout
C10_Witness == stops >= 2 /\ TimeoutCalls # {} /\ Finished

\* ------------------------------------------- a resource that completes late
\* timeout option of the scenario (units of 1000 ms)
ScenarioTimeout == 12
\* the resource reports processing to the first three requests, completed from
\* the fourth on
ScenarioStatus(f) == IF f <= 3 THEN "processing" ELSE "completed"
ScenarioInit ==
    /\ phase = "idle"
    /\ timeout = ScenarioTimeout
    /\ hasOnUpdate \in BOOLEAN
    /\ now = 0
    /\ startTime = 0
    /\ pollingHandle = "undefined"
    /\ nextTick = 0
    /\ started = <<>>
    /\ inflight = {}
    /\ observed = <<>>
    /\ log = <<>>
    /\ stops = 0
    /\ twin = NoTwin
    /\ view = NoView
ScenarioNext ==
    \/ StartReportPolling /\ Alone
    \/ Tick /\ Alone
    \/ \E f \in inflight : FetchResolve(f, ScenarioStatus(f)) /\ Alone
    \/ Advance /\ Alone
ScenarioSpec == ScenarioInit /\ [][ScenarioNext]_vars

\* C11: the first request is issued at the call, then one per interval tick
\* while the interval is armed; against a resource reporting processing three
\* times and then completed, onSuccess is invoked exactly once, with the
\* report of the fourth request (which is issued 3 intervals after the call).
\* Stated for sessions whose callbacks return normally.
C11_ImmediateThenPerTick ==
    NoRaise =>
        /\ phase = "running" => (Len(started) >= 1 /\ started[1] = startTime)
        /\ \A i \in DOMAIN started : started[i] = startTime + (i - 1) * interval
        /\ pollingHandle = "active" => now <= startTime + Len(started) * interval
        /\ Cardinality(Calls("onSuccess")) <= 1
        /\ \A i \in Calls("onSuccess") : log[i].arg = Report("completed", 4)
        /\ (\E k \in DOMAIN observed : observed[k].from = 4) =>
               Cardinality(Calls("onSuccess")) = 1

\* ---------------------------------------------- callbacks, fetch by fetch
InLog(c) == \E i \in DOMAIN log : log[i] = c
\* the arguments the invocations of callback cb received, in order
ArgsOf(cb) ==
    LET sel == SelectSeq(log, LAMBDA c : c.cb = cb)
    IN  [i \in DOMAIN sel |-> sel[i].arg]
\* the reports the settled requests returned, in order
ReportsSeen == SelectSeq(observed, LAMBDA o : o.kind = "report")
\* the callbacks that received the report of request f
Triggered(f) ==
    {log[i].cb : i \in {j \in DOMAIN log :
                          log[j].arg.kind = "report" /\ log[j].arg.from = f}}
\* a callback raised while poll() handled the report of request f
Raised(f) == InLog(Call("onFailure", Error("exception", f)))
UpdateOnly == IF hasOnUpdate THEN {"onUpdate"} ELSE {}
\* a step in which a request returned a non-terminal report and no callback raised
NonTerminalStep ==
    /\ Len(observed') = Len(observed) + 1
    /\ observed'[Len(observed')].kind = "report"
    /\ observed'[Len(observed')].val \notin {"completed", "failed"}
    /\ \A i \in DOMAIN log' : i > Len(log) => log'[i].arg.val # "exception"

\* C12: if the request issued at the call rejects, onFailure is invoked exactly
\* once and no interval tick has issued, or ever issues, a request.
C12_FirstRejectOnly ==
    InLog(Call("onFailure", Error("fetch", 1))) =>
        /\ Len(started) = 1
        /\ Cardinality(Calls("onFailure")) = 1

\* C13: a supplied onUpdate is invoked once, with the report, for every request
\* that returns a report, terminal or not, and in a terminal step right before
\* the terminal callback; never for a rejected request or a timed-out step.
C13_UpdateEveryReport ==
    /\ ArgsOf("onUpdate") = (IF hasOnUpdate THEN ReportsSeen ELSE <<>>)
    /\ \A i \in Terminals :
           (hasOnUpdate /\ log[i].arg.kind = "report") =>
               (i > 1 /\ log[i - 1] = Call("onUpdate", log[i].arg))
\* onUpdate supplied; reports of a non-terminal and of a terminal status were
\* returned, a request rejected and a step timed out
C13_Witness ==
    /\ hasOnUpdate
    /\ Saw("processing") # {} /\ Saw("completed") # {}
    /\ Settled("error") # {} /\ TimeoutCalls # {}

\* C14 as stated: a request observing completed triggers only onSuccess, one
\* observing failed only onFailure, and onUpdate is invoked only for the other
\* statuses, after which polling continues.  Stated for sessions whose
\* callbacks return normally.
C14_ExclusiveState ==
    NoRaise =>
        \A k \in Settled("report") :
            Triggered(observed[k].from) =
                CASE observed[k].val = "completed" -> {"onSuccess"}
                  [] observed[k].val = "failed" -> {"onFailure"}
                  [] OTHER -> UpdateOnly
C14_ExclusiveOutcomes ==
    [][ /\ C14_ExclusiveState'
        /\ NonTerminalStep => pollingHandle' = pollingHandle ]_vars

\* C14 amended: the report of a request observing completed goes to onSuccess
\* and never to onFailure, that of one observing failed to onFailure and never
\* to onSuccess, that of any other status to neither, and then polling
\* continues; a supplied onUpdate receives the report in all three cases,
\* first, and the terminal callback is skipped only if onUpdate raised.
C14_OutcomesState ==
    \A k \in Settled("report") :
        LET f == observed[k].from
            terminal == CASE observed[k].val = "completed" -> {"onSuccess"}
                          [] observed[k].val = "failed" -> {"onFailure"}
                          [] OTHER -> {}
        IN  \/ Triggered(f) = UpdateOnly \cup terminal
            \/ hasOnUpdate /\ Raised(f) /\ Triggered(f) = UpdateOnly
C14_Outcomes ==
    [][ /\ C14_OutcomesState'
        /\ NonTerminalStep => pollingHandle' = pollingHandle ]_vars
\* onUpdate supplied; a completed, a failed and a non-terminal report were
\* each delivered, and the terminal ones reached their terminal callback
C14_Witness ==
    /\ hasOnUpdate
    /\ Saw("processing") # {}
    /\ \E k \in Saw("completed") : "onSuccess" \in Triggered(observed[k].from)
    /\ \E k \in Saw("failed") : "onFailure" \in Triggered(observed[k].from)

\* C15: onFailure receives a report exactly when a request returned a report of
\* status failed, and an Error for a rejected request and for a timeout; each
\* of these causes reaches onFailure.
C15_FailureArgument ==
    /\ \A i \in Calls("onFailure") :
           log[i].arg.kind = "report" =>
               \E k \in Saw("failed") : observed[k] = log[i].arg
    /\ \A k \in Saw("failed") :
           \/ InLog(Call("onFailure", observed[k]))
           \/ hasOnUpdate /\ Raised(observed[k].from)
    /\ \A k \in Settled("error") :
           InLog(Call("onFailure", Error("fetch", observed[k].from)))
    /\ (pollingHandle = "cleared" /\ stops = 0 /\ NoRaise /\ Settled("error") = {}
            /\ Saw("completed") = {} /\ Saw("failed") = {}) =>
           InLog(Call("onFailure", Error("timeout", 0)))
\* the three causes in one session: a failed report, a rejection, a timeout
C15_Witness ==
    /\ \E k \in Saw("failed") : InLog(Call("onFailure", observed[k]))
    /\ Settled("error") # {}
    /\ TimeoutCalls # {}

\* ticks fire when due, time passes, and every request settles
Settle ==
    \/ \E f \in inflight, s \in ReportStatus : FetchResolve(f, s)
    \/ \E f \in inflight : FetchReject(f)
FairSpec ==
    /\ Init /\ [][Next]_vars
    /\ WF_vars(StartReportPolling /\ Alone) /\ WF_vars(Tick /\ Alone)
    /\ WF_vars(Advance /\ Alone) /\ WF_vars(Settle /\ Alone)

\* ------------------------------- two runs that differ in the AI task state
\* ai_analysis_status values the second run is compared on
PairAi == {"processing", "completed"}
\* a fetched report with its ai_analysis_status
FullReport(s, a, f) == [kind |-> "report", val |-> s, ai |-> a, from |-> f]
\* a report without its AI task state
Primary(arg) == IF arg.kind = "report" THEN Report(arg.val, arg.from) ELSE arg
PrimaryCalls(calls) == [i \in DOMAIN calls |-> Call(calls[i].cb, Primary(calls[i].arg))]

\* both runs are started at the same instant
PairStart ==
    /\ StartReportPolling
    /\ twin' = [log |-> twin.log \o SubSeq(log', Len(log) + 1, Len(log')),
                pollingHandle |-> "active"]
    /\ UNCHANGED view
\* the interval of both runs ticks
PairTick ==
    /\ Tick
    /\ twin.pollingHandle = "active"
    /\ twin' = IF TimedOut(now, startTime)
               THEN [log |-> Append(twin.log, Call("onFailure", Error("timeout", 0))),
                     pollingHandle |-> "cleared"]
               ELSE twin
    /\ UNCHANGED view
\* request f of both runs resolves with status s; the first run's report has
\* ai_analysis_status a1, the second run's a2
PairResolve(f, s, a1, a2) ==
    /\ f \in inflight
    /\ inflight' = inflight \ {f}
    /\ observed' = Append(observed, FullReport(s, a1, f))
    /\ \E ru, rt \in BOOLEAN :
         LET c == Continuation(FullReport(s, a1, f), ru, rt)
             d == Continuation(FullReport(s, a2, f), ru, rt)
         IN  /\ log' = log \o c.calls
             /\ pollingHandle' = (IF c.clear THEN "cleared" ELSE pollingHandle)
             /\ twin' = [log |-> twin.log \o d.calls,
                         pollingHandle |-> IF d.clear THEN "cleared"
                                           ELSE twin.pollingHandle]
    /\ UNCHANGED <<phase, timeout, hasOnUpdate, now, startTime, nextTick,
                   started, stops, view>>
\* request f of both runs rejects
PairReject(f) ==
    /\ FetchReject(f)
    /\ twin' = [log |-> Append(twin.log, Call("onFailure", Error("fetch", f))),
                pollingHandle |-> "cleared"]
    /\ UNCHANGED view
PairAdvance == Advance /\ Alone

PairNext ==
    \/ PairStart
    \/ PairTick
    \/ \E f \in inflight, s \in ReportStatus, a1 \in PairAi :
           \E a2 \in PairAi \ {a1} : PairResolve(f, s, a1, a2)
    \/ \E f \in inflight : PairReject(f)
    \/ PairAdvance
\* both runs get the shorter timeout option
PairInit == Init /\ timeout = MaxTimeoutOpt - 1
PairSpec == PairInit /\ [][PairNext]_vars

\* C16: two runs fed reports that agree on status, timing and errors and
\* differ in ai_analysis_status invoke the same callbacks in the same order
\* (up to the AI task state inside the reports passed) and keep the same
\* interval state, hence issue the same requests; a report with status
\* completed and ai_analysis_status processing reaches onSuccess and ends
\* the session.
C16_AiIndependent ==
    /\ PrimaryCalls(twin.log) = PrimaryCalls(log)
    /\ twin.pollingHandle = pollingHandle
    /\ \A k \in Settled("report") :
           (observed[k].val = "completed" /\ observed[k].ai = "processing") =>
               /\ pollingHandle = "cleared"
               /\ \/ InLog(Call("onSuccess", observed[k]))
                  \/ hasOnUpdate /\ Raised(observed[k].from)
\* a completed report whose AI task is still processing was passed to
\* onSuccess, while the second run passed one whose AI task is completed
C16_Witness ==
    /\ \E k \in Settled("report") :
           /\ observed[k].val = "completed" /\ observed[k].ai = "processing"
           /\ InLog(Call("onSuccess", observed[k]))
    /\ twin.log # log
    /\ Len(started) >= 2

\* ------------------------------------------------- the AI-status polling
\* startAiAnalysisPolling as the design describes it: startReportPolling
\* watching ai_analysis_status, with a default interval of 5000 ms.  As for
\* startReportPolling the timeout is an option of the call and is kept short
\* (the default, 180000 ms, is 36 intervals).  Its clock moves in steps of one
\* interval: ticks and the request timeout are whole intervals, and tasks due
\* at the same instant run in any order.  The session keeps no record of
\* the reports fetched other than the callback log.
AiStatus == {"not_started", "processing", "completed", "failed"}
AiDefaultInterval == 5

AiInit ==
    /\ phase = "idle"
    /\ timeout \in TimeoutOpts
    /\ hasOnUpdate = FALSE
    /\ now = 0
    /\ startTime = 0
    /\ pollingHandle = "undefined"
    /\ nextTick = 0
    /\ started = <<>>
    /\ inflight = {}
    /\ observed = <<>>
    /\ log = <<>>
    /\ stops = 0
    /\ twin = NoTwin
    /\ view = NoView

StartAiAnalysisPolling ==
    /\ phase = "idle"
    /\ phase' = "running"
    /\ startTime' = now
    /\ PollSync(now)
    /\ pollingHandle' = "active"
    /\ nextTick' = now + AiDefaultInterval
    /\ UNCHANGED <<timeout, hasOnUpdate, now, observed, stops>>

AiTick ==
    /\ phase = "running"
    /\ pollingHandle = "active"
    /\ now = nextTick
    /\ nextTick' = nextTick + AiDefaultInterval
    /\ PollSync(startTime)
    /\ pollingHandle' = (IF TimedOut(now, startTime) THEN "cleared" ELSE pollingHandle)
    /\ UNCHANGED <<phase, timeout, hasOnUpdate, now, startTime, observed, stops>>

\* poll() of the AI-status polling after its request returned report rep
AiContinuation(rep, ru, rt) ==
    LET upd == IF hasOnUpdate THEN <<Call("onUpdate", rep)>> ELSE <<>>
        caught == <<Call("onFailure", Error("exception", rep.from))>>
    IN  IF hasOnUpdate /\ ru
        THEN [calls |-> upd \o caught, clear |-> TRUE]
        ELSE IF rep.ai = "completed"
        THEN [calls |-> upd \o <<Call("onSuccess", rep)>>
                            \o (IF rt THEN caught ELSE <<>>),
              clear |-> TRUE]
        ELSE IF rep.ai = "failed"
        THEN [calls |-> upd \o <<Call("onFailure", rep)>>
                            \o (IF rt THEN caught ELSE <<>>),
              clear |-> TRUE]
        ELSE [calls |-> upd, clear |-> FALSE]

AiResolve(f, s, a) ==
    /\ f \in inflight
    /\ inflight' = inflight \ {f}
    /\ \E ru, rt \in BOOLEAN :
         LET c == AiContinuation(FullReport(s, a, f), ru, rt)
         IN  /\ log' = log \o c.calls
             /\ pollingHandle' = (IF c.clear THEN "cleared" ELSE pollingHandle)
    /\ UNCHANGED <<phase, timeout, hasOnUpdate, now, startTime, nextTick,
                   started, observed, stops>>

AiReject(f) ==
    /\ f \in inflight
    /\ inflight' = inflight \ {f}
    /\ pollingHandle' = "cleared"
    /\ log' = Append(log, Call("onFailure", Error("fetch", f)))
    /\ UNCHANGED <<phase, timeout, hasOnUpdate, now, startTime, nextTick,
                   started, observed, stops>>

AiAdvance ==
    /\ phase = "running"
    /\ now < timeout + AiDefaultInterval + RequestTimeout + 1
    /\ pollingHandle = "active" \/ inflight # {}
    /\ pollingHandle = "active" => now < nextTick
    /\ \A f \in inflight : now < started[f] + RequestTimeout
    /\ now' = now + AiDefaultInterval
    /\ UNCHANGED <<phase, timeout, hasOnUpdate, startTime, pollingHandle, nextTick,
                   started, inflight, observed, log, stops>>

AiNext ==
    \/ StartAiAnalysisPolling /\ Alone
    \/ AiTick /\ Alone
    \/ \E f \in inflight, s \in ReportStatus, a \in AiStatus : AiResolve(f, s, a) /\ Alone
    \/ \E f \in inflight : AiReject(f) /\ Alone
    \/ Stop /\ Alone
    \/ AiAdvance /\ Alone
AiSpec == AiInit /\ [][AiNext]_vars

\* the callbacks a continuation invokes, without their arguments
Callbacks(c) == [i \in DOMAIN c.calls |-> c.calls[i].cb]

session == <<phase, timeout, hasOnUpdate, now, startTime, pollingHandle, nextTick,
             started, inflight, observed, log, stops>>
\* error_message of a report, message of an Error: absent/empty or some text
Messages == {"", "reason"}
NoMessage == [type |-> "none", message |-> ""]
\* the callback invocation a step added to the log
Delivered == log'[Len(log')]

\* ---- AnalysisCenterView
CenterInit ==
    [consumer |-> "AnalysisCenterView", mounted |-> TRUE, pending |-> FALSE,
     shown |-> NoMessage, refreshes |-> 1]
\* errorReport?.error_message with the fallback removed
CenterFailureTextNoDefault(arg, em) ==
    IF arg.kind = "report" THEN em ELSE ""
\* errorReport?.error_message || `报告 #${reportId} 分析失败`
CenterFailureText(arg, em) ==
    IF arg.kind = "report" /\ em # "" THEN em ELSE "report analysis failed"
\* the onSuccess and onFailure passed by startPollingForReport
CenterHandle(v, call, em) ==
    IF call.cb = "onSuccess"
    THEN [v EXCEPT !.shown = [type |-> "success", message |-> "analysis done"],
                   !.refreshes = @ + 1]
    ELSE [v EXCEPT !.shown = [type |-> "error",
                              message |-> CenterFailureText(call.arg, em)],
                   !.refreshes = @ + 1]
\* a step of the session, its callback (if any) run by the view's handlers
CenterDeliver ==
    /\ \E em \in Messages :
           view' = IF log' = log THEN view ELSE CenterHandle(view, Delivered, em)
    /\ UNCHANGED twin
IsCenter == view.consumer = "AnalysisCenterView"

\* NewAnalysisDialog emits submitted: message, fetchReports(), startPollingForReport
OnAnalysisSubmitted ==
    /\ IsCenter /\ view.mounted /\ ~view.pending
    /\ StartReportPolling
    /\ view' = [view EXCEPT !.shown = [type |-> "success", message |-> "submitted"],
                            !.refreshes = @ + 1]
    /\ UNCHANGED twin
\* handleRetry up to `await apiRetryReport(id)`
HandleRetry ==
    /\ IsCenter /\ view.mounted /\ ~view.pending /\ phase = "idle"
    /\ view' = [view EXCEPT !.pending = TRUE]
    /\ UNCHANGED <<session, twin>>
\* apiRetryReport resolved: message, startPollingForReport(id)
RetryResolve ==
    /\ IsCenter /\ view.pending
    /\ StartReportPolling
    /\ view' = [view EXCEPT !.pending = FALSE,
                            !.shown = [type |-> "info", message |-> "resubmitted"]]
    /\ UNCHANGED twin
\* apiRetryReport rejected: ElMessage.error(error.message || '重试任务失败')
RetryReject ==
    /\ IsCenter /\ view.pending
    /\ view' = [view EXCEPT !.pending = FALSE,
                            !.shown = [type |-> "error", message |-> "retry failed"]]
    /\ UNCHANGED <<session, twin>>
\* the router leaves the view; the view registers no unmount hook
CenterTearDown ==
    /\ IsCenter /\ view.mounted
    /\ view' = [view EXCEPT !.mounted = FALSE]
    /\ UNCHANGED <<session, twin>>
CenterTick == IsCenter /\ Tick /\ CenterDeliver
CenterResolve(f, s) == IsCenter /\ FetchResolve(f, s) /\ NoRaise' /\ CenterDeliver
CenterReject(f) == IsCenter /\ FetchReject(f) /\ CenterDeliver
CenterAdvance == IsCenter /\ Advance /\ UNCHANGED <<twin, view>>

\* ---- AiAnalysisReport
\* the component once the synchronous part of its onMounted hook has run
ComponentInit ==
    [consumer |-> "AiAnalysisReport", mounted |-> TRUE, pending |-> {"mount"},
     isLoading |-> FALSE, error |-> "null", analysisResult |-> "null",
     stopPolling |-> "null"]
\* the message of the Error a session passes to onFailure
ErrorMessage(arg, msg) ==
    IF arg.kind = "report" THEN ""
    ELSE IF arg.val = "timeout" THEN "polling timed out" ELSE msg
\* handlePollingFailure: the text it stores in error
AiFailureText(arg, msg) ==
    IF arg.kind = "report" /\ arg.ai = "failed"
    THEN "ai task failed"
    ELSE IF ErrorMessage(arg, msg) # "" THEN ErrorMessage(arg, msg)
         ELSE "unknown error"
\* handlePollingSuccess and handlePollingFailure
AiHandle(v, call, msg) ==
    IF call.cb = "onSuccess"
    THEN [v EXCEPT !.isLoading = FALSE, !.analysisResult = "cache"]
    ELSE [v EXCEPT !.isLoading = FALSE, !.error = AiFailureText(call.arg, msg)]
AiDeliver ==
    /\ \E msg \in Messages :
           view' = IF log' = log THEN view ELSE AiHandle(view, Delivered, msg)
    /\ UNCHANGED twin
IsComponent == view.consumer = "AiAnalysisReport"

\* onMounted after `await getReportDetails` resolved with ai_analysis_status a
MountResolve(a) ==
    /\ IsComponent /\ "mount" \in view.pending
    /\ IF a = "processing"
       THEN /\ StartAiAnalysisPolling
            /\ view' = [view EXCEPT !.pending = @ \ {"mount"}, !.isLoading = TRUE,
                                    !.stopPolling = "handle"]
       ELSE /\ view' = [view EXCEPT !.pending = @ \ {"mount"},
                           !.analysisResult = IF a = "completed" THEN "cache" ELSE @,
                           !.error = IF a = "failed" THEN "previous task failed" ELSE @]
            /\ UNCHANGED session
    /\ UNCHANGED twin
\* onMounted's catch block
MountReject ==
    /\ IsComponent /\ "mount" \in view.pending
    /\ view' = [view EXCEPT !.pending = @ \ {"mount"}, !.error = "load failed"]
    /\ UNCHANGED <<session, twin>>
\* the user clicks a startAnalysis button (shown while not loading and either
\* an error or no result is displayed): up to `await submitAiAnalysisTask`
StartAnalysis ==
    /\ IsComponent /\ view.mounted /\ view.pending = {} /\ phase = "idle"
    /\ ~view.isLoading
    /\ view.error # "null" \/ view.analysisResult = "null"
    /\ view' = [view EXCEPT !.isLoading = TRUE, !.error = "null",
                            !.pending = {"submit"}]
    /\ UNCHANGED <<session, twin>>
\* submitAiAnalysisTask resolved: stopPolling = startAiAnalysisPolling(...)
SubmitResolve ==
    /\ IsComponent /\ "submit" \in view.pending
    /\ StartAiAnalysisPolling
    /\ view' = [view EXCEPT !.pending = @ \ {"submit"}, !.stopPolling = "handle"]
    /\ UNCHANGED twin
\* startAnalysis's catch block
SubmitReject ==
    /\ IsComponent /\ "submit" \in view.pending
    /\ view' = [view EXCEPT !.pending = @ \ {"submit"}, !.isLoading = FALSE,
                            !.error = "submit failed"]
    /\ UNCHANGED <<session, twin>>
\* onUnmounted: if (stopPolling) stopPolling()
Unmount ==
    /\ IsComponent /\ view.mounted
    /\ view' = [view EXCEPT !.mounted = FALSE]
    /\ IF view.stopPolling = "handle" THEN Stop ELSE UNCHANGED session
    /\ UNCHANGED twin
ComponentTick == IsComponent /\ AiTick /\ AiDeliver
ComponentResolve(f, s, a) == IsComponent /\ AiResolve(f, s, a) /\ NoRaise' /\ AiDeliver
ComponentReject(f) == IsComponent /\ AiReject(f) /\ AiDeliver
ComponentAdvance == IsComponent /\ AiAdvance /\ UNCHANGED <<twin, view>>

ViewInit ==
    /\ phase = "idle"
    /\ timeout \in TimeoutOpts
    /\ hasOnUpdate = FALSE
    /\ now = 0
    /\ startTime = 0
    /\ pollingHandle = "undefined"
    /\ nextTick = 0
    /\ started = <<>>
    /\ inflight = {}
    /\ observed = <<>>
    /\ log = <<>>
    /\ stops = 0
    /\ twin = NoTwin
    /\ view \in {CenterInit, ComponentInit}
ViewNext ==
    \/ OnAnalysisSubmitted
    \/ HandleRetry
    \/ RetryResolve
    \/ RetryReject
    \/ CenterTearDown
    \/ CenterTick
    \/ \E f \in inflight, s \in ReportStatus : CenterResolve(f, s)
    \/ \E f \in inflight : CenterReject(f)
    \/ CenterAdvance
    \/ \E a \in AiStatus : MountResolve(a)
    \/ MountReject
    \/ StartAnalysis
    \/ SubmitResolve
    \/ SubmitReject
    \/ Unmount
    \/ ComponentTick
    \/ \E f \in inflight, s \in ReportStatus, a \in AiStatus : ComponentResolve(f, s, a)
    \/ \E f \in inflight : ComponentReject(f)
    \/ ComponentAdvance
ViewSpec == ViewInit /\ [][ViewNext]_vars

\* C18: once an AiAnalysisReport component is unmounted, no polling request
\* is issued on its behalf, whether its session was started before the
\* unmount or by a status check or submission still pending at the unmount.
C18_NoFetchAfterUnmount ==
    [][(IsComponent /\ ~view.mounted) => started' = started]_vars

\* C19: once AnalysisCenterView is torn down, the session it started issues
\* no request and invokes no callback.
C19_NoPollingAfterTearDown ==
    [][(IsCenter /\ ~view.mounted) => (started' = started /\ log' = log)]_vars

\* C20: every onFailure invocation of a session (for a failed report, a
\* rejected request or a timeout) leaves its consumer in an error state:
\* AnalysisCenterView has shown an error message with a non-empty text and
\* requested a refresh of the list; AiAnalysisReport has isLoading false and
\* a non-empty error text.
C20_FailureShown ==
    [][ (Len(log') > Len(log) /\ Delivered.cb = "onFailure") =>
            /\ IsCenter =>
                   /\ view'.shown.type = "error"
                   /\ view'.shown.message # ""
                   /\ view'.refreshes = view.refreshes + 1
            /\ IsComponent =>
                   /\ ~view'.isLoading
                   /\ view'.error \notin {"null", ""} ]_vars
\* AnalysisCenterView was told of a failed report and of a rejected request
\* of one session, and shows an error
C20_Witness ==
    /\ IsCenter
    /\ \E k \in Saw("failed") : InLog(Call("onFailure", observed[k]))
    /\ \E f \in DOMAIN started : InLog(Call("onFailure", Error("fetch", f)))
    /\ view.shown.type = "error"

\* ---------------------------------------------------- analysisReportStore
\* The store shared by every ReportView (stores/analysisReportStore.ts) and
\* the view that drives it.  A fetchReport call awaits Promise.all of two
\* requests: its continuation runs once, when both have resolved or when the
\* first of them is rejected.  No polling session takes part.
\* fetchReport calls in one run
MaxFetches == 2
NoSession ==
    /\ phase = "idle"
    /\ timeout = MaxTimeoutOpt
    /\ hasOnUpdate = FALSE
    /\ now = 0
    /\ startTime = 0
    /\ pollingHandle = "undefined"
    /\ nextTick = 0
    /\ started = <<>>
    /\ inflight = {}
    /\ observed = <<>>
    /\ log = <<>>
    /\ stops = 0
    /\ twin = NoTwin
\* the route parameter id of ReportView
RouteParams == {"1", "2", "abc"}
NaN == -1
\* parseInt(props.id, 10)
ParseInt(p) == IF p = "1" THEN 1 ELSE IF p = "2" THEN 2 ELSE NaN
\* the data of getReportDetails(id); Null is null / not arrived
Details(id, s, frd, em) ==
    [id |-> id, status |-> s, full_report_data |-> frd, error_message |-> em]
Null == Details(0, "null", "null", "")
\* the data of getChartDataForReport(id)
Charts(id) == [report_id |-> id]
NoCharts == Charts(0)
\* state of the store after construction, no ReportView mounted; a call in
\* flight is [n, id, solo, details, charts]: the n-th call, whether it has
\* overlapped no other call, and which of its requests have resolved (what
\* they resolved with is seen by the continuation only).  count, cleared and
\* last record the history: calls made, clearReport called since the last
\* fetchReport, and the call whose continuation ran last, with the responses
\* it saw and why it ran.
StoreInit ==
    [consumer |-> "ReportView", mounted |-> "",
     isLoading |-> TRUE, reportDetail |-> Null, chartData |-> NoCharts,
     error |-> "null", calls |-> {}, count |-> 0, cleared |-> FALSE,
     last |-> [n |-> 0, solo |-> TRUE, details |-> Null, charts |-> NoCharts,
               how |-> "none"]]
\* fetchReport up to its await
FetchReport(v, id) ==
    [v EXCEPT !.isLoading = TRUE, !.error = "null", !.reportDetail = Null,
              !.chartData = NoCharts,
              !.calls = {[c EXCEPT !.solo = FALSE] : c \in v.calls}
                        \cup {[n |-> v.count + 1, id |-> id, solo |-> v.calls = {},
                               details |-> "pending", charts |-> "pending"]},
              !.count = v.count + 1, !.cleared = FALSE, !.last = StoreInit.last]
\* the catch block with the fallback text removed
FetchReportCatchNoDefault(v, c, msg) ==
    [v EXCEPT !.error = msg, !.isLoading = FALSE, !.calls = v.calls \ {c},
              !.last = [n |-> c.n, solo |-> c.solo, details |-> Null,
                        charts |-> NoCharts, how |-> "rejected"]]
\* fetchReport after Promise.all resolved: the test of the report, finally
FetchReportTry(v, c, details, charts) ==
    LET w == IF details.status = "completed" /\ details.full_report_data # "null"
             THEN [v EXCEPT !.reportDetail = details, !.chartData = charts]
             ELSE [v EXCEPT !.error = IF details.error_message # ""
                                      THEN details.error_message
                                      ELSE "report status abnormal"]
    IN  [w EXCEPT !.isLoading = FALSE, !.calls = v.calls \ {c},
                  !.last = [n |-> c.n, solo |-> c.solo, details |-> details,
                            charts |-> charts, how |-> "resolved"]]
\* fetchReport after Promise.all rejected: catch, finally
FetchReportCatch(v, c, msg) ==
    [v EXCEPT !.error = IF msg # "" THEN msg ELSE "fetch failed",
              !.isLoading = FALSE, !.calls = v.calls \ {c},
              !.last = [n |-> c.n, solo |-> c.solo, details |-> Null,
                        charts |-> NoCharts, how |-> "rejected"]]
\* clearReport
ClearReport(v) ==
    [v EXCEPT !.reportDetail = Null, !.chartData = NoCharts, !.error = "null",
              !.cleared = TRUE, !.last = StoreInit.last]
\* fetchData of ReportView
FetchData(v, p) ==
    IF ParseInt(p) # NaN THEN FetchReport(v, ParseInt(p)) ELSE v
\* the router shows ReportView for route parameter p: onMounted(fetchData)
ReportMount(p) ==
    /\ view.consumer = "ReportView" /\ view.mounted = ""
    /\ ParseInt(p) # NaN => view.count < MaxFetches
    /\ view' = FetchData([view EXCEPT !.mounted = p], p)
    /\ UNCHANGED <<session, twin>>
\* the retry button of the error result
ReportRetry ==
    /\ view.consumer = "ReportView" /\ view.mounted # "" /\ view.error # "null"
    /\ view.count < MaxFetches
    /\ view' = FetchData(view, view.mounted)
    /\ UNCHANGED <<session, twin>>
\* the router leaves ReportView: onUnmounted
ReportUnmount ==
    /\ view.consumer = "ReportView" /\ view.mounted # ""
    /\ view' = ClearReport([view EXCEPT !.mounted = ""])
    /\ UNCHANGED <<session, twin>>
\* getReportDetails of call c resolved
DetailsResolve(c, s, frd, em) ==
    /\ view.consumer = "ReportView" /\ c \in view.calls /\ c.details = "pending"
    /\ view' = IF c.charts = "resolved"
               THEN FetchReportTry(view, c, Details(c.id, s, frd, em), Charts(c.id))
               ELSE [view EXCEPT !.calls = (view.calls \ {c})
                                    \cup {[c EXCEPT !.details = "resolved"]}]
    /\ UNCHANGED <<session, twin>>
\* getChartDataForReport of call c resolved; s, frd, em are the report
\* getReportDetails resolved with, if it did
ChartsResolve(c, s, frd, em) ==
    /\ view.consumer = "ReportView" /\ c \in view.calls /\ c.charts = "pending"
    /\ view' = IF c.details = "resolved"
               THEN FetchReportTry(view, c, Details(c.id, s, frd, em), Charts(c.id))
               ELSE [view EXCEPT !.calls = (view.calls \ {c})
                                    \cup {[c EXCEPT !.charts = "resolved"]}]
    /\ UNCHANGED <<session, twin>>
\* one of the two requests of call c rejected with message msg
RequestReject(c, msg) ==
    /\ view.consumer = "ReportView" /\ c \in view.calls
    /\ view' = FetchReportCatch(view, c, msg)
    /\ UNCHANGED <<session, twin>>
StoreNext ==
    \/ \E p \in RouteParams : ReportMount(p)
    \/ ReportRetry
    \/ ReportUnmount
    \/ \E c \in view.calls, s \in ReportStatus, frd \in {"null", "data"}, em \in Messages :
          DetailsResolve(c, s, frd, em)
    \/ \E c \in view.calls, s \in ReportStatus, frd \in {"null", "data"}, em \in Messages :
          ChartsResolve(c, s, frd, em)
    \/ \E c \in view.calls, msg \in Messages : RequestReject(c, msg)
StoreSpecInit == NoSession /\ view = StoreInit
StoreSpec == StoreSpecInit /\ [][StoreNext]_vars

\* C21: after clearReport, reportDetail, chartData and error stay null until
\* the next call of fetchReport, also when a fetchReport started before the
\* clear completes later.
C21_ClearedStaysNull ==
    (view.consumer = "ReportView" /\ view.cleared) =>
        /\ view.reportDetail = Null
        /\ view.chartData = NoCharts
        /\ view.error = "null"

\* C26: the store shows the most recently requested report: once no
\* fetchReport call is in flight, the state is the one written by the latest
\* call, and isLoading is true as long as a call is in flight.
C26_LatestRequestWins ==
    view.consumer = "ReportView" =>
        /\ (view.calls = {} /\ view.last # StoreInit.last) => view.last.n = view.count
        /\ view.calls # {} => view.isLoading

\* C27: after a fetchReport call that overlapped no other call completes,
\* isLoading is false and exactly one of reportDetail and error is non-null:
\* reportDetail (the report received, with its chart data) if both requests
\* resolved and the report is completed with full_report_data, else error,
\* with a non-empty message, and reportDetail and chartData null.
C27_SoloOutcome ==
    (view.consumer = "ReportView" /\ view.last # StoreInit.last /\ view.last.solo) =>
        /\ ~view.isLoading
        /\ (view.reportDetail # Null) # (view.error # "null")
        /\ IF /\ view.last.how = "resolved"
              /\ view.last.details.status = "completed"
              /\ view.last.details.full_report_data # "null"
           THEN /\ view.reportDetail = view.last.details
                /\ view.chartData = view.last.charts
           ELSE /\ view.reportDetail = Null
                /\ view.chartData = NoCharts
                /\ view.error \notin {"null", ""}
\* a call alone in flight was rejected with an empty message
C27_Witness ==
    /\ view.consumer = "ReportView" /\ view.last.solo /\ view.last.how = "rejected"
    /\ view.error = "fetch failed"

\* ------------------------------------------------- callbacks that raise
\* The session of Spec, with the callback that raised in a step of poll()
\* recorded in view.raised.  The timeout is fixed and stop is not called.
RaiseInit ==
    /\ phase = "idle"
    /\ timeout = MaxTimeoutOpt - 1
    /\ hasOnUpdate \in BOOLEAN
    /\ now = 0
    /\ startTime = 0
    /\ pollingHandle = "undefined"
    /\ nextTick = 0
    /\ started = <<>>
    /\ inflight = {}
    /\ observed = <<>>
    /\ log = <<>>
    /\ stops = 0
    /\ twin = NoTwin
    /\ view = [consumer |-> "callbacks", raised |-> "none"]
\* no callback raised in this step
NoneRaised == view' = [view EXCEPT !.raised = "none"] /\ UNCHANGED twin
\* the callback that raises in poll() for report rep, if onUpdate raises when
\* called (ru) and the terminal callback raises when called (rt)
RaisedBy(rep, ru, rt) ==
    IF hasOnUpdate /\ ru THEN "onUpdate"
    ELSE IF rt /\ rep.val = "completed" THEN "onSuccess"
    ELSE IF rt /\ rep.val = "failed" THEN "onFailure"
    ELSE "none"
\* the awaited request f resolves with status s; the callbacks raise as ru, rt say
RaisingResolve(f, s, ru, rt) ==
    /\ FetchResolve(f, s)
    /\ log' = log \o Continuation(Report(s, f), ru, rt).calls
    /\ view' = [view EXCEPT !.raised = RaisedBy(Report(s, f), ru, rt)]
    /\ UNCHANGED twin
RaiseNext ==
    \/ StartReportPolling /\ NoneRaised
    \/ Tick /\ NoneRaised
    \/ \E f \in inflight, s \in ReportStatus, ru, rt \in BOOLEAN : RaisingResolve(f, s, ru, rt)
    \/ \E f \in inflight : FetchReject(f) /\ NoneRaised
    \/ Advance /\ NoneRaised
RaiseSpec == RaiseInit /\ [][RaiseNext]_vars

\* C22: a callback that raises inside a poll step (onUpdate, onSuccess, or
\* onFailure called with a failed report) is handled like a fetch error: in
\* the same step the interval is cleared and onFailure is invoked with the
\* exception, directly after the invocation that raised; so a raising
\* onSuccess is followed by an onFailure and a raising onFailure(report) by a
\* second onFailure.
C22_RaiseIsCaught ==
    [][(view.consumer = "callbacks" /\ log' # log /\ view'.raised # "none") =>
          LET n == Len(log')
          IN  /\ n - 1 > Len(log)
              /\ pollingHandle' = "cleared"
              /\ log'[n - 1].cb = view'.raised
              /\ log'[n - 1].arg.kind = "report"
              /\ log'[n] = Call("onFailure", Error("exception", log'[n - 1].arg.from))
              /\ log'[n - 1].arg.from \in inflight \ inflight']_vars
\* an onFailure called with a failed report raised and was called again
C22_Witness ==
    /\ view.consumer = "callbacks" /\ view.raised = "onFailure"
    /\ Len(log) >= 2
    /\ log[Len(log) - 1].cb = "onFailure" /\ log[Len(log) - 1].arg.val = "failed"
    /\ log[Len(log)] = Call("onFailure", Error("exception", log[Len(log) - 1].arg.from))

\* ------------------------------------------------ several sessions at once
\* Two calls of startReportPolling, as AnalysisCenterView makes them for two
\* submitted or retried reports.  Everything a call declares (lines 22-32:
\* the options, pollingHandle, startTime, poll) belongs to that call, so each
\* session is a record of its own; only the clock is shared.  The callbacks
\* return normally and no onUpdate is passed.
\* the timeout both calls pass: the tick after one interval polls, the tick
\* after two intervals times out
TwoTimeout == DefaultInterval + 1
SessionIds == {"first", "second"}
\* the locals of a call before it is made
Fresh ==
    [phase |-> "idle", startTime |-> 0, pollingHandle |-> "undefined",
     nextTick |-> 0, issued |-> 0, inflight |-> {}, log |-> <<>>, stopped |-> FALSE]
\* poll() of session r up to its await
PollOf(r) ==
    IF TimedOut(now, r.startTime)
    THEN [r EXCEPT !.log = Append(@, Call("onFailure", Error("timeout", 0))),
                   !.pollingHandle = "cleared"]
    ELSE [r EXCEPT !.issued = @ + 1, !.inflight = @ \cup {r.issued + 1}]
\* the stop function of session r
StopOf(r) ==
    [r EXCEPT !.stopped = TRUE,
              !.pollingHandle = IF @ # "undefined" THEN "cleared" ELSE @]
\* the single session of Spec takes no part
Aside ==
    UNCHANGED <<phase, timeout, hasOnUpdate, startTime, pollingHandle, nextTick,
                started, inflight, observed, log, stops, twin>>
\* startReportPolling: poll(); pollingHandle = setInterval(poll, interval)
TwoStart(i) ==
    /\ view.consumer = "sessions" /\ view.s[i].phase = "idle"
    /\ view' = [view EXCEPT !.s[i] =
                   [PollOf([@ EXCEPT !.phase = "running", !.startTime = now])
                       EXCEPT !.pollingHandle = "active", !.nextTick = now + interval]]
    /\ UNCHANGED now /\ Aside
\* one interval tick of session i
TwoTick(i) ==
    /\ view.consumer = "sessions" /\ view.s[i].pollingHandle = "active" /\ now = view.s[i].nextTick
    /\ view' = [view EXCEPT !.s[i] = PollOf([@ EXCEPT !.nextTick = @ + interval])]
    /\ UNCHANGED now /\ Aside
\* poll() of session i after its request f resolved with status s
TwoResolve(i, f, s) ==
    /\ view.consumer = "sessions" /\ f \in view.s[i].inflight
    /\ LET c == Continuation(Report(s, f), FALSE, FALSE)
       IN  view' = [view EXCEPT !.s[i] =
                       [@ EXCEPT !.inflight = @ \ {f}, !.log = @ \o c.calls,
                                 !.pollingHandle = IF c.clear THEN "cleared" ELSE @]]
    /\ UNCHANGED now /\ Aside
\* poll() of session i after its request f was rejected
TwoReject(i, f) ==
    /\ view.consumer = "sessions" /\ f \in view.s[i].inflight
    /\ view' = [view EXCEPT !.s[i] =
                   [@ EXCEPT !.inflight = @ \ {f}, !.pollingHandle = "cleared",
                             !.log = Append(@, Call("onFailure", Error("fetch", f)))]]
    /\ UNCHANGED now /\ Aside
\* a stop function that clears a handle kept outside the call, shared by all
TwoStopShared(i) ==
    /\ view.consumer = "sessions" /\ view.s[i].phase = "running" /\ ~view.s[i].stopped
    /\ view' = [view EXCEPT !.s = [j \in SessionIds |->
                    IF j = i THEN StopOf(view.s[j])
                    ELSE [view.s[j] EXCEPT !.pollingHandle =
                              IF @ # "undefined" THEN "cleared" ELSE @]]]
    /\ UNCHANGED now /\ Aside
\* the caller of session i invokes its stop handle
TwoStop(i) ==
    /\ view.consumer = "sessions" /\ view.s[i].phase = "running" /\ ~view.s[i].stopped
    /\ view' = [view EXCEPT !.s[i] = StopOf(@)]
    /\ UNCHANGED now /\ Aside
\* time passes; a due tick fires before the clock moves on, and the clock is
\* followed for two intervals
TwoAdvance ==
    /\ view.consumer = "sessions" /\ now < 2 * DefaultInterval
    /\ \E i \in SessionIds : view.s[i].phase = "running"
    /\ \A i \in SessionIds : view.s[i].pollingHandle = "active" => now < view.s[i].nextTick
    /\ now' = now + 1
    /\ UNCHANGED view /\ Aside
TwoInit ==
    /\ phase = "idle"
    /\ timeout = TwoTimeout
    /\ hasOnUpdate = FALSE
    /\ now = 0
    /\ startTime = 0
    /\ pollingHandle = "undefined"
    /\ nextTick = 0
    /\ started = <<>>
    /\ inflight = {}
    /\ observed = <<>>
    /\ log = <<>>
    /\ stops = 0
    /\ twin = NoTwin
    /\ view = [consumer |-> "sessions", s |-> [i \in SessionIds |-> Fresh]]
TwoNext ==
    \/ \E i \in SessionIds : TwoStart(i)
    \/ \E i \in SessionIds : TwoTick(i)
    \/ \E i \in SessionIds : \E f \in view.s[i].inflight, s \in ReportStatus : TwoResolve(i, f, s)
    \/ \E i \in SessionIds : \E f \in view.s[i].inflight : TwoReject(i, f)
    \/ \E i \in SessionIds : TwoStop(i)
    \/ TwoAdvance
TwoSpec == TwoInit /\ [][TwoNext]_vars

\* C23: sessions are independent: a step of one session (its start, tick,
\* settled request, stop, termination or timeout) leaves the start time,
\* timer, requests and callback log of every other session unchanged, so a
\* session that was active stays active with its next tick still due.
C23_SessionsIndependent ==
    [][view.consumer = "sessions" =>
         \A i \in SessionIds :
            view'.s[i] # view.s[i] =>
               \A j \in SessionIds \ {i} :
                  /\ view'.s[j] = view.s[j]
                  /\ view.s[j].pollingHandle = "active" =>
                        /\ view'.s[j].pollingHandle = "active"
                        /\ view'.s[j].nextTick = view.s[j].nextTick]_vars
\* one session was stopped by its handle before its first tick and the
\* other, started later, has since polled again on its tick and is active
C23_Witness ==
    /\ view.consumer = "sessions"
    /\ \E i \in SessionIds : \E j \in SessionIds \ {i} :
          /\ view.s[i].stopped /\ view.s[i].pollingHandle = "cleared"
          /\ view.s[i].nextTick = view.s[i].startTime + interval
          /\ view.s[j].startTime > view.s[i].startTime
          /\ view.s[j].pollingHandle = "active"
          /\ view.s[j].nextTick > view.s[j].startTime + interval

\* ------------------------------------- AiAnalysisReport and its sessions
\* One AiAnalysisReport instance with every session it starts.  A session of
\* startAiAnalysisPolling is kept as its number only: it is active from the
\* call until it invokes onSuccess or onFailure once or its stop handle is
\* called.  The start and retry buttons are the ones the template shows.
\* clicks on the start or retry button in one run
MaxClicks == 2
LifeInit ==
    /\ NoSession
    /\ view = [consumer |-> "AiAnalysisReport sessions", mounted |-> TRUE,
               pending |-> {"mount"}, isLoading |-> FALSE, error |-> "null",
               analysisResult |-> "null", stopPolling |-> 0, active |-> {},
               sessions |-> 0, clicks |-> 0, ended |-> "none"]
\* stopPolling = startAiAnalysisPolling({...})
StartSession(v) ==
    [v EXCEPT !.sessions = @ + 1, !.active = @ \cup {v.sessions + 1},
              !.stopPolling = v.sessions + 1, !.ended = "none"]
\* onMounted after `await getReportDetails` resolved with ai_analysis_status a
LifeMountResolve(a) ==
    /\ view.consumer = "AiAnalysisReport sessions" /\ "mount" \in view.pending
    /\ LET v == [view EXCEPT !.pending = @ \ {"mount"}, !.ended = "none"]
       IN  view' = IF a = "processing"
                   THEN StartSession([v EXCEPT !.isLoading = TRUE])
                   ELSE IF a = "completed" THEN [v EXCEPT !.analysisResult = "cache"]
                   ELSE IF a = "failed" THEN [v EXCEPT !.error = "previous task failed"]
                   ELSE v
    /\ UNCHANGED <<session, twin>>
\* onMounted after getReportDetails was rejected
LifeMountReject ==
    /\ view.consumer = "AiAnalysisReport sessions" /\ "mount" \in view.pending
    /\ view' = [view EXCEPT !.pending = @ \ {"mount"}, !.ended = "none",
                            !.error = "loading the status failed"]
    /\ UNCHANGED <<session, twin>>
\* a click on the button of the initial or of the error state: startAnalysis
\* up to its await
LifeStartAnalysis ==
    /\ view.consumer = "AiAnalysisReport sessions" /\ view.mounted /\ view.clicks < MaxClicks
    /\ ~view.isLoading
    /\ view.error # "null" \/ view.analysisResult = "null"
    /\ view' = [view EXCEPT !.isLoading = TRUE, !.error = "null",
                            !.pending = @ \cup {"submit"}, !.clicks = @ + 1,
                            !.ended = "none"]
    /\ UNCHANGED <<session, twin>>
\* startAnalysis after submitAiAnalysisTask resolved
LifeSubmitResolve ==
    /\ view.consumer = "AiAnalysisReport sessions" /\ "submit" \in view.pending
    /\ view' = StartSession([view EXCEPT !.pending = @ \ {"submit"}])
    /\ UNCHANGED <<session, twin>>
\* startAnalysis after submitAiAnalysisTask was rejected
LifeSubmitReject ==
    /\ view.consumer = "AiAnalysisReport sessions" /\ "submit" \in view.pending
    /\ view' = [view EXCEPT !.pending = @ \ {"submit"}, !.isLoading = FALSE,
                            !.error = "submitting failed", !.ended = "none"]
    /\ UNCHANGED <<session, twin>>
\* session n ends with success: onSuccess(report)
SessionSuccess(n) ==
    /\ view.consumer = "AiAnalysisReport sessions" /\ n \in view.active
    /\ view' = [AiHandle(view, Call("onSuccess", FullReport("completed", "completed", n)), "")
                   EXCEPT !.active = @ \ {n}, !.ended = "success"]
    /\ UNCHANGED <<session, twin>>
\* session n ends with failure: onFailure(report) or onFailure(Error)
SessionFailure(n, arg, msg) ==
    /\ view.consumer = "AiAnalysisReport sessions" /\ n \in view.active
    /\ view' = [AiHandle(view, Call("onFailure", arg), msg)
                   EXCEPT !.active = @ \ {n}, !.ended = "failure"]
    /\ UNCHANGED <<session, twin>>
\* onUnmounted: if (stopPolling) stopPolling()
LifeUnmount ==
    /\ view.consumer = "AiAnalysisReport sessions" /\ view.mounted
    /\ view' = [view EXCEPT !.mounted = FALSE, !.active = @ \ {view.stopPolling},
                            !.ended = "none"]
    /\ UNCHANGED <<session, twin>>
LifeNext ==
    \/ \E a \in AiStatus : LifeMountResolve(a)
    \/ LifeMountReject
    \/ LifeStartAnalysis
    \/ LifeSubmitResolve
    \/ LifeSubmitReject
    \/ \E n \in view.active : SessionSuccess(n)
    \/ \E n \in view.active, msg \in Messages :
          \E arg \in {FullReport("completed", "failed", n), Error("timeout", 0),
                      Error("fetch", n)} : SessionFailure(n, arg, msg)
    \/ LifeUnmount
LifeSpec == LifeInit /\ [][LifeNext]_vars

\* C24: an AiAnalysisReport instance has at most one active polling session
\* and its stopPolling handle is the handle of that session.
C24_OneSessionWithHandle ==
    view.consumer = "AiAnalysisReport sessions" =>
        /\ Cardinality(view.active) <= 1
        /\ \A n \in view.active : view.stopPolling = n

\* C25: when a session started by AiAnalysisReport ends with success, the
\* component is in the result state: isLoading false, error null and
\* analysisResult the ai_analysis_cache of the report.
C25_ResultState ==
    (view.consumer = "AiAnalysisReport sessions" /\ view.ended = "success") =>
        /\ ~view.isLoading
        /\ view.error = "null"
        /\ view.analysisResult = "cache"

\* ------------------------------------------ AnalysisCenterView.handleRetry
\* The row of one report in allReports and the retries of that report.  The
\* rows of the list are objects: fetchReports replaces the list by new
\* objects carrying the status the server reports, and a handleRetry call
\* keeps the object it found (reportToUpdate).  objs holds every row object
\* made so far, listed is the one now in the list, polls counts the calls of
\* startPollingForReport(id), outcome tells how the last step ended a retry.
\* clicks on the retry button in one run
MaxRetries == 2
\* reloads of the list in one run
MaxReloads == 2
RowsInit ==
    /\ NoSession
    /\ view = [consumer |-> "AnalysisCenterView list", objs |-> <<"failed">>,
               listed |-> 1, retries |-> {}, clicks |-> 0, reloads |-> 0,
               polls |-> 0, shown |-> NoMessage, outcome |-> "none"]
\* handleRetry after a rejected request that leaves the row as it is
RetryRowRejectKeeps(r, msg) ==
    /\ view.consumer = "AnalysisCenterView list" /\ r \in view.retries
    /\ view' = [view EXCEPT !.retries = @ \ {r}, !.outcome = "rejected",
                   !.shown = [type |-> "error",
                              message |-> IF msg # "" THEN msg ELSE "retry failed"]]
    /\ UNCHANGED <<session, twin>>
\* a click on the retry button, shown for a failed row: handleRetry up to
\* its await
RetryRowClick ==
    /\ view.consumer = "AnalysisCenterView list" /\ view.clicks < MaxRetries
    /\ view.objs[view.listed] = "failed"
    /\ view' = [view EXCEPT !.objs[view.listed] = "processing",
                   !.retries = @ \cup {[n |-> view.clicks + 1, reportToUpdate |-> view.listed]},
                   !.clicks = @ + 1, !.outcome = "sent"]
    /\ UNCHANGED <<session, twin>>
\* apiRetryReport of retry r resolved: message, startPollingForReport(id)
RetryRowResolve(r) ==
    /\ view.consumer = "AnalysisCenterView list" /\ r \in view.retries
    /\ view' = [view EXCEPT !.retries = @ \ {r}, !.polls = @ + 1,
                   !.outcome = "resolved",
                   !.shown = [type |-> "info", message |-> "resubmitted"]]
    /\ UNCHANGED <<session, twin>>
\* apiRetryReport of retry r rejected: the catch block
RetryRowReject(r, msg) ==
    /\ view.consumer = "AnalysisCenterView list" /\ r \in view.retries
    /\ view' = [view EXCEPT !.retries = @ \ {r}, !.outcome = "rejected",
                   !.objs[r.reportToUpdate] = "failed",
                   !.shown = [type |-> "error",
                              message |-> IF msg # "" THEN msg ELSE "retry failed"]]
    /\ UNCHANGED <<session, twin>>
\* fetchReports resolved: the list holds new row objects
RowsReload(s) ==
    /\ view.consumer = "AnalysisCenterView list" /\ view.reloads < MaxReloads
    /\ view' = [view EXCEPT !.objs = Append(@, s), !.listed = Len(view.objs) + 1,
                   !.reloads = @ + 1, !.outcome = "none"]
    /\ UNCHANGED <<session, twin>>
RetryNext ==
    \/ RetryRowClick
    \/ \E r \in view.retries : RetryRowResolve(r)
    \/ \E r \in view.retries, msg \in Messages : RetryRowReject(r, msg)
    \/ \E s \in ReportStatus : RowsReload(s)
RetrySpec == RowsInit /\ [][RetryNext]_vars

\* C28: handleRetry(id) sets the status of the row it finds in the list to
\* processing in the task that sends the retry request; when the request is
\* rejected that row is set back to failed and startPollingForReport is not
\* called; when it resolves startPollingForReport(id) is called once; and
\* it is called in no other step, so only after a retry request succeeded.
C28_RetryRow ==
    [][view.consumer = "AnalysisCenterView list" =>
         /\ view'.clicks # view.clicks =>
               /\ view'.objs[view.listed] = "processing"
               /\ \E r \in view'.retries \ view.retries : r.reportToUpdate = view.listed
               /\ view'.polls = view.polls
         /\ \A r \in view.retries \ view'.retries :
               /\ view'.outcome \in {"resolved", "rejected"}
               /\ view'.outcome = "rejected" =>
                     /\ view'.objs[r.reportToUpdate] = "failed"
                     /\ view'.polls = view.polls
               /\ view'.outcome = "resolved" =>
                     /\ view'.polls = view.polls + 1
                     /\ view'.objs = view.objs
         /\ view'.polls # view.polls =>
               view'.outcome = "resolved" /\ view.retries # view'.retries]_vars
\* a retry was rejected and its row is failed again, after an earlier retry
\* had started a polling session
C28_Witness ==
    /\ view.consumer = "AnalysisCenterView list" /\ view.outcome = "rejected" /\ view.polls = 1
    /\ view.objs[view.listed] = "failed" /\ view.reloads = 1

\* --------------------------------------------------- the score-entry grid
\* One row of the score grid (keepSource: true) with two subject columns.
\* A cell holds null or the text of its input, kept as a sequence of
\* characters; the grid keeps the row as it was loaded (source):
\* isUpdateByRow(row) compares the row with it and revertData(row) copies it
\* back.  saves are the saveSingleScore requests in flight.
\* cell edits closed in one run
MaxEdits == 2
Subjects == {"math", "art"}
\* null, as a cell value and as a score
CellNull == <<"null">>
NotANumber == <<"NaN">>
Digit == {"0", "5", "7", "8"}
\* what the user leaves in a cell: null or a text
CellValues ==
    {CellNull, <<>>, <<"8", "5">>, <<"8", "x">>, <<"x">>, <<" ", "7">>, <<" ">>}
RECURSIVE SkipSpaces(_)
SkipSpaces(t) == IF t # <<>> /\ Head(t) = " " THEN SkipSpaces(Tail(t)) ELSE t
RECURSIVE DigitPrefix(_)
DigitPrefix(t) ==
    IF t # <<>> /\ Head(t) \in Digit THEN <<Head(t)>> \o DigitPrefix(Tail(t)) ELSE <<>>
\* parseFloat(String(cellValue)): leading blanks are skipped and the longest
\* numeric prefix is the number; NaN if there is none
ParseFloat(t) ==
    IF DigitPrefix(SkipSpaces(t)) = <<>> THEN NotANumber ELSE DigitPrefix(SkipSpaces(t))
\* the rows as loaded: each score cell holds null or a number
GridInit ==
    /\ NoSession
    /\ \E src \in [Subjects -> {CellNull, <<"8", "0">>}] :
          view = [consumer |-> "score grid", row |-> src, source |-> src,
                  saves |-> {}, edits |-> 0, rejected |-> 0,
                  closed |-> [field |-> "math", value |-> CellNull],
                  shown |-> NoMessage]
\* gridRef.isUpdateByRow(row)
IsUpdateByRow(v) == v.row # v.source
\* gridRef.revertData(row)
RevertData(v) == [v EXCEPT !.row = v.source]
\* (cellValue === '' || cellValue == null) ? null : parseFloat(String(cellValue))
NewScore(cellValue) ==
    IF cellValue = <<>> \/ cellValue = CellNull THEN CellNull ELSE ParseFloat(cellValue)
\* handleCellEditClosed without its isNaN test
HandleCellEditClosedNoTest(v, field) ==
    IF ~IsUpdateByRow(v) THEN v
    ELSE [v EXCEPT !.saves = @ \cup {[n |-> v.edits, subject_name |-> field,
                                      score |-> NewScore(v.row[field])]}]
\* handleCellEditClosed up to its await, for the cell of column field
HandleCellEditClosed(v, field) ==
    IF ~IsUpdateByRow(v) THEN v
    ELSE IF NewScore(v.row[field]) # CellNull /\ NewScore(v.row[field]) = NotANumber
    THEN [RevertData(v) EXCEPT !.shown = [type |-> "error", message |-> "invalid score"]]
    ELSE [v EXCEPT !.saves = @ \cup {[n |-> v.edits, subject_name |-> field,
                                      score |-> NewScore(v.row[field])]}]
\* the user leaves value in the cell of column field and the edit closes
CellEditClosed(field, value) ==
    /\ view.consumer = "score grid" /\ view.edits < MaxEdits
    /\ view' = HandleCellEditClosed(
                   [view EXCEPT !.row[field] = value, !.edits = @ + 1,
                                !.closed = [field |-> field, value |-> value]],
                   field)
    /\ UNCHANGED <<session, twin>>
\* saveSingleScore q resolved: clearEdit(row), message
SaveResolve(q) ==
    /\ view.consumer = "score grid" /\ q \in view.saves
    /\ view' = [view EXCEPT !.saves = @ \ {q},
                            !.shown = [type |-> "success", message |-> "saved"]]
    /\ UNCHANGED <<session, twin>>
\* saveSingleScore q rejected: revertData(row)
SaveReject(q) ==
    /\ view.consumer = "score grid" /\ q \in view.saves
    /\ view' = [RevertData(view) EXCEPT !.saves = @ \ {q}, !.rejected = @ + 1]
    /\ UNCHANGED <<session, twin>>
GridNext ==
    \/ \E field \in Subjects, value \in CellValues : CellEditClosed(field, value)
    \/ \E q \in view.saves : SaveResolve(q)
    \/ \E q \in view.saves : SaveReject(q)
GridSpec == GridInit /\ [][GridNext]_vars

\* C29: closing the edit of a cell in a row that isUpdateByRow reports as
\* changed sends one saveSingleScore request if the value is empty or
\* null (score null) or parseFloat gives a number for it (that number), and
\* sends none and reverts the row if parseFloat gives NaN; an unchanged row
\* sends nothing; a rejected saveSingleScore request reverts the row to the
\* data the grid keeps as loaded.
C29_SaveOnlyValid ==
    [][view.consumer = "score grid" =>
         /\ view'.edits # view.edits =>
               LET value == view'.closed.value
                   empty == value = <<>> \/ value = CellNull
                   sent == view'.saves \ view.saves
                   Edited == [view.row EXCEPT ![view'.closed.field] = value]
               IN  /\ view.saves \subseteq view'.saves
                   /\ \A q \in sent : q.score # NotANumber
                                        /\ q.subject_name = view'.closed.field
                   /\ Edited = view.source => sent = {}
                   /\ (Edited # view.source /\ empty) =>
                         /\ Cardinality(sent) = 1
                         /\ \A q \in sent : q.score = CellNull
                         /\ view'.row = Edited
                   /\ (Edited # view.source /\ ~empty /\ ParseFloat(value) = NotANumber) =>
                         /\ sent = {}
                         /\ view'.row = view.source
                   /\ (Edited # view.source /\ ~empty /\ ParseFloat(value) # NotANumber) =>
                         /\ Cardinality(sent) = 1
                         /\ \A q \in sent : q.score = ParseFloat(value)
                         /\ view'.row = Edited
         /\ view'.rejected # view.rejected =>
               /\ view'.row = view.source
               /\ view'.saves \subseteq view.saves]_vars
\* a cell was left with text that is no number: nothing is in flight and the
\* row is as loaded, after an earlier edit of the row had been sent
C29_Witness ==
    /\ view.consumer = "score grid" /\ view.edits = 2
    /\ ParseFloat(view.closed.value) = NotANumber /\ view.closed.value # <<>>
    /\ view.closed.value # CellNull
    /\ view.shown.type = "error" /\ view.row = view.source /\ view.saves # {}

\* --------------------------------------- the student grid and useClassStore
\* StudentGrid shows the students of classStore.selectedClass, passed to it
\* as the prop selectedClass; its watcher runs when the selection changes.
\* rows is the grid data (the class it was loaded for, whether it holds
\* unsaved edits), loads the fetchStudents requests in flight, raised whether
\* the watcher ended with an exception.
\* node selections in one run
MaxSelects == 3
\* switches of the edit mode in one run
MaxToggles == 3
ClassIds == {"class 1", "class 2", "class 3"}
\* the members useClassStore returns
ClassStoreMembers ==
    {"classTree", "isLoading", "isSubmitting", "selectedGrade", "selectedClass",
     "selectedNodeKey", "treeProps", "gridTitle", "fetchClassTree", "selectNode",
     "handleCreateGrade", "handleCreateClass", "handleUpdateClass",
     "handleDeleteClass", "handleUpdateGrade", "handleDeleteGrade"}
\* the grid mounted for class c: the immediate watcher has called fetchStudents
StudentGridInit ==
    /\ NoSession
    /\ \E c \in ClassIds :
          view = [consumer |-> "StudentGrid", selectedClassId |-> c,
                  isEditMode |-> FALSE,
                  rows |-> [class |-> "none", unsaved |-> FALSE], loads |-> {c},
                  fetched |-> 1, selects |-> 0, toggles |-> 0,
                  shown |-> NoMessage, raised |-> FALSE]
\* selectNode(node) for a class node
SelectNode(v, c) == [v EXCEPT !.selectedClassId = c]
\* fetchStudents(classId) up to its await
FetchStudents(v, c) == [v EXCEPT !.loads = @ \cup {c}, !.fetched = @ + 1]
\* classStore.selectClass(oldClass): a call of a member of the store
SelectClass(v, oldClass) ==
    IF "selectClass" \in ClassStoreMembers
    THEN SelectNode(v, oldClass)
    ELSE [v EXCEPT !.raised = TRUE]
\* the watcher of props.selectedClass, called with the new and the old class
WatchSelectedClass(v, newClass, oldClass) ==
    IF v.isEditMode
    THEN SelectClass([v EXCEPT !.shown = [type |-> "warning",
                                         message |-> "save or cancel the edit first"]],
                     oldClass)
    ELSE FetchStudents(v, newClass)
\* a click on another class of the tree: handleNodeClick, then the watcher
ClassNodeClick(c) ==
    /\ view.consumer = "StudentGrid" /\ view.selects < MaxSelects
    /\ c # view.selectedClassId
    /\ view' = WatchSelectedClass(
                   [SelectNode(view, c) EXCEPT !.selects = @ + 1, !.raised = FALSE],
                   c, view.selectedClassId)
    /\ UNCHANGED <<session, twin>>
\* toggleEditMode(mode)
ToggleEditMode(mode) ==
    /\ view.consumer = "StudentGrid" /\ view.isEditMode # mode /\ view.toggles < MaxToggles
    /\ view' = IF mode
               THEN [view EXCEPT !.isEditMode = TRUE, !.raised = FALSE,
                                 !.toggles = @ + 1,
                                 !.shown = [type |-> "info", message |-> "edit mode"]]
               ELSE FetchStudents([view EXCEPT !.isEditMode = FALSE, !.raised = FALSE,
                                               !.toggles = @ + 1],
                                  view.selectedClassId)
    /\ UNCHANGED <<session, twin>>
\* the user changes or pastes rows in edit mode
EditRows ==
    /\ view.consumer = "StudentGrid" /\ view.isEditMode /\ ~view.rows.unsaved
    /\ view' = [view EXCEPT !.rows.unsaved = TRUE, !.raised = FALSE]
    /\ UNCHANGED <<session, twin>>
\* getStudentsByClass(c) resolved: gridOptions.data is the list received
StudentsResolve(c) ==
    /\ view.consumer = "StudentGrid" /\ c \in view.loads
    /\ view' = [view EXCEPT !.loads = @ \ {c}, !.raised = FALSE,
                            !.rows = [class |-> c, unsaved |-> FALSE]]
    /\ UNCHANGED <<session, twin>>
ClassNext ==
    \/ \E c \in ClassIds : ClassNodeClick(c)
    \/ \E mode \in BOOLEAN : ToggleEditMode(mode)
    \/ EditRows
    \/ \E c \in view.loads : StudentsResolve(c)
ClassSpec == StudentGridInit /\ [][ClassNext]_vars

\* C30: when another class is selected while edit mode is on, the switch is
\* rejected: a warning is shown, the store's selection is again the class
\* selected before, no student list is fetched, and the grid rows are kept.
C30_SwitchRejected ==
    [][(view.consumer = "StudentGrid" /\ view.isEditMode /\ view'.selects # view.selects) =>
          /\ view'.shown.type = "warning"
          /\ view'.selectedClassId = view.selectedClassId
          /\ view'.fetched = view.fetched
          /\ view'.loads = view.loads
          /\ view'.rows = view.rows]_vars

====
